---- MODULE Spec2Model ----
(***************************************************************************)
(* bandit-dl: the page-to-filesystem pipeline of src/main.go.               *)
(*                                                                         *)
(* Strings are sequences of code points (integers), so that prefix tests,  *)
(* path formatting, the name sanitizer and the date parser are computed    *)
(* the way the Go code computes them.  A JSON text is modelled by what      *)
(* encoding/json sees in it (see Tralbum texts below); the bytes handed to  *)
(* timestamp.UnmarshalJSON are kept as bytes.                               *)
(***************************************************************************)
EXTENDS Integers, Sequences, FiniteSets, TLC

VARIABLES build, args, safeNames, mpc, mi, visited, reports, sf, al,
          dirs, files, handles, log, cs

vars == <<build, args, safeNames, mpc, mi, visited, reports, sf, al,
          dirs, files, handles, log, cs>>

-----------------------------------------------------------------------------
(* Bounds of the model.                                                    *)

\* longest string the sanitizer is applied to in SpecClean
MaxLen == 3
\* albums are cut to at most this many entries of trackinfo
MaxTracks == 3

-----------------------------------------------------------------------------
(* Strings.                                                                *)

IsDigit(c) == c >= 48 /\ c <= 57

RECURSIVE Concat(_)
Concat(parts) ==
    IF parts = <<>> THEN <<>> ELSE Head(parts) \o Concat(Tail(parts))

\* strings.HasPrefix
HasPrefix(s, prefix) ==
    /\ Len(s) >= Len(prefix)
    /\ SubSeq(s, 1, Len(prefix)) = prefix

\* the decimal digits of n >= 0, as fmt's %d prints them
RECURSIVE Decimal(_)
Decimal(n) ==
    IF n < 10 THEN <<48 + n>> ELSE Decimal(n \div 10) \o <<48 + (n % 10)>>

\* fmt's %02d, and time's "2006": zero-padded to a width
RECURSIVE ZeroPad(_, _)
ZeroPad(s, width) ==
    IF Len(s) >= width THEN s ELSE ZeroPad(<<48>> \o s, width)

-----------------------------------------------------------------------------
(* Name sanitizer: msStrings and cleanString.                              *)

\* the keys of msStrings:  <  >  :  /  \  |  ?  *
msKeys == {60, 62, 58, 47, 92, 124, 63, 42}

msStrings ==
    [r \in msKeys |->
        CASE r = 60  -> 65124
          [] r = 62  -> 65125
          [] r = 58  -> 720
          [] r = 47  -> 8260
          [] r = 92  -> 8726
          [] r = 124 -> 12033
          [] r = 63  -> 65110
          [] r = 42  -> 65121]

\* a sanitizer whose table maps '<' to '>' (a replacement that is itself unsafe)
cleanRuneChained(r1) ==
    IF r1 = 60 THEN <<62>>
    ELSE IF r1 \in DOMAIN msStrings THEN <<msStrings[r1]>> ELSE <<r1>>

\* the body of cleanString's loop: what one rune appends to out
cleanRune(r1) ==
    IF r1 \in DOMAIN msStrings THEN <<msStrings[r1]>> ELSE <<r1>>

RECURSIVE cleanString(_)
cleanString(s) ==
    IF s = <<>> THEN <<>> ELSE cleanRune(Head(s)) \o cleanString(Tail(s))

-----------------------------------------------------------------------------
(* time.Parse under the layout "02 Jan 2006 15:04:05 GMT".                  *)
(* The layout splits into: day(02) " " month(Jan) " " year(2006) " "        *)
(* hour(15) ":" minute(04) ":" second(05) " GMT".  A parse state is the     *)
(* rest of the value and an ok flag.                                        *)

BadParse == [ok |-> FALSE, rest |-> <<>>, n |-> 0]

\* time.cutspace
RECURSIVE cutspace(_)
cutspace(s) ==
    IF s # <<>> /\ Head(s) = 32 THEN cutspace(Tail(s)) ELSE s

\* time.skip: a space of the layout takes a run of spaces of the value (or
\* its end); any other byte must be equal
RECURSIVE skip(_, _)
skip(value, prefix) ==
    IF prefix = <<>> THEN [ok |-> TRUE, rest |-> value, n |-> 0]
    ELSE IF Head(prefix) = 32
         THEN IF value # <<>> /\ Head(value) # 32
              THEN BadParse
              ELSE skip(cutspace(value), cutspace(prefix))
         ELSE IF value = <<>> \/ Head(value) # Head(prefix)
              THEN BadParse
              ELSE skip(Tail(value), Tail(prefix))

\* time.getnum: one or two digits, exactly two when fixed
getnum(s, fixed) ==
    IF s = <<>> \/ ~IsDigit(s[1]) THEN BadParse
    ELSE IF Len(s) < 2 \/ ~IsDigit(s[2])
         THEN IF fixed THEN BadParse
              ELSE [ok |-> TRUE, rest |-> Tail(s), n |-> s[1] - 48]
         ELSE [ok |-> TRUE, rest |-> SubSeq(s, 3, Len(s)),
               n |-> (s[1] - 48) * 10 + (s[2] - 48)]

\* the stdLongYear case: four bytes, all digits
getyear(s) ==
    IF Len(s) < 4 \/ \E i \in 1..4 : ~IsDigit(s[i]) THEN BadParse
    ELSE [ok |-> TRUE, rest |-> SubSeq(s, 5, Len(s)),
          n |-> (s[1] - 48) * 1000 + (s[2] - 48) * 100
                + (s[3] - 48) * 10 + (s[4] - 48)]

shortMonthNames ==
    << <<74, 97, 110>>,  <<70, 101, 98>>, <<77, 97, 114>>,  <<65, 112, 114>>,
       <<77, 97, 121>>,  <<74, 117, 110>>, <<74, 117, 108>>, <<65, 117, 103>>,
       <<83, 101, 112>>, <<79, 99, 116>>, <<78, 111, 118>>, <<68, 101, 99>> >>

\* byte | ('a' - 'A'): the lower-case form of an ASCII letter
Lower(c) == IF c >= 65 /\ c <= 90 THEN c + 32 ELSE c

\* time.match: equal, ignoring the case of ASCII letters
match(s1, s2) ==
    \A i \in 1..Len(s1) :
        \/ s1[i] = s2[i]
        \/ /\ Lower(s1[i]) = Lower(s2[i])
           /\ Lower(s1[i]) >= 97 /\ Lower(s1[i]) <= 122

\* time.lookup over shortMonthNames
lookup(val) ==
    LET hits == {m \in 1..12 : Len(val) >= 3 /\ match(SubSeq(val, 1, 3), shortMonthNames[m])}
    IN  IF hits = {} THEN BadParse
        ELSE [ok |-> TRUE, rest |-> SubSeq(val, 4, Len(val)),
              n |-> CHOOSE m \in hits : \A k \in hits : m <= k]

\* a fractional second in the value although the layout has none: the
\* separator, and the digits after it, are consumed
RECURSIVE cutdigits(_)
cutdigits(s) ==
    IF s # <<>> /\ IsDigit(Head(s)) THEN cutdigits(Tail(s)) ELSE s

fraction(value) ==
    IF Len(value) >= 2 /\ value[1] \in {44, 46} /\ IsDigit(value[2])
    THEN cutdigits(Tail(value))
    ELSE value

isLeap(year) == year % 4 = 0 /\ (year % 100 # 0 \/ year % 400 = 0)

daysIn(month, year) ==
    IF month = 2 THEN (IF isLeap(year) THEN 29 ELSE 28)
    ELSE IF month \in {4, 6, 9, 11} THEN 30 ELSE 31

\* one step of the parse: st is the rest of the value and the fields read
\* so far; r is what getnum, lookup, getyear or skip made of st.rest
Took(st, r, field) ==
    IF st.ok /\ r.ok
    THEN [st EXCEPT !.rest = r.rest, ![field] = r.n]
    ELSE [st EXCEPT !.ok = FALSE]

stdZeroDay(st) == Took(st, getnum(st.rest, TRUE), "day")
stdMonth(st) == Took(st, lookup(st.rest), "month")
stdLongYear(st) == Took(st, getyear(st.rest), "year")
stdHour(st) == Took(st, getnum(st.rest, FALSE), "hour")
stdZeroMinute(st) == Took(st, getnum(st.rest, TRUE), "min")
stdZeroSecond(st) == Took(st, getnum(st.rest, TRUE), "sec")
literal(st, prefix) == Took(st, skip(st.rest, prefix), "lit")
fractional(st) == [st EXCEPT !.rest = fraction(st.rest)]

\* the checks on the fields: hour, minute, second and the day of the month
inRange(st) ==
    /\ st.hour < 24 /\ st.min < 60 /\ st.sec < 60
    /\ st.day >= 1 /\ st.day <= daysIn(st.month, st.year)

\* time.Parse("02 Jan 2006 15:04:05 GMT", value)
timeParse(value) ==
    LET st == literal(fractional(stdZeroSecond(literal(stdZeroMinute(literal(
                  stdHour(literal(stdLongYear(literal(stdMonth(literal(
                  stdZeroDay([ok |-> TRUE, rest |-> value, day |-> 0, month |-> 1,
                              year |-> 0, hour |-> 0, min |-> 0, sec |-> 0, lit |-> 0]),
                  <<32>>)), <<32>>)), <<32>>)), <<58>>)), <<58>>))), <<32, 71, 77, 84>>)
    IN  IF st.ok /\ st.rest = <<>> /\ inRange(st)
        THEN [ok |-> TRUE, year |-> st.year]
        ELSE [ok |-> FALSE, year |-> 0]

-----------------------------------------------------------------------------
(* timestamp.UnmarshalJSON and json.Unmarshal into bandcampTRAlbum.         *)
(*                                                                         *)
(* A JSON text is the record encoding/json derives from it:                 *)
(*   syntax   - the text is valid JSON (checked before anything is stored), *)
(*   mismatch - some field other than album_release_date holds a value of   *)
(*              the wrong JSON type (an UnmarshalTypeError is saved and     *)
(*              decoding goes on),                                          *)
(*   hasDate, date - whether the key album_release_date is present, and     *)
(*              the raw bytes of its value, which is what UnmarshalJSON     *)
(*              is handed,                                                  *)
(*   artist, title, art_id, tracks - the decoded fields.                    *)

\* the release date unmarshaller with the error of time.Parse dropped
UnmarshalJSONUnchecked(b) ==
    IF Len(b) < 2 THEN [kind |-> "panic", year |-> 0]
    ELSE [kind |-> "ok", year |-> timeParse(SubSeq(b, 2, Len(b) - 1)).year]

\* timestamp.UnmarshalJSON: s[1 : len(s)-1] panics when len(s) < 2
UnmarshalJSON(b) ==
    IF Len(b) < 2 THEN [kind |-> "panic", year |-> 0]
    ELSE LET tt == timeParse(SubSeq(b, 2, Len(b) - 1))
         IN  IF ~tt.ok THEN [kind |-> "err", year |-> 0]
             ELSE [kind |-> "ok", year |-> tt.year]

NoAlbum == [artist |-> <<>>, title |-> <<>>, art_id |-> 0, year |-> 0, tracks |-> <<>>]

\* json.Unmarshal([]byte(tralbumValue), &tralbum)
jsonUnmarshal(text) ==
    IF ~text.syntax
    THEN [kind |-> "err", err |-> "invalid JSON", tralbum |-> NoAlbum]
    ELSE LET u == IF text.hasDate THEN UnmarshalJSON(text.date)
                  ELSE [kind |-> "ok", year |-> 1]   \* the zero time.Time
         IN  IF u.kind = "panic"
             THEN [kind |-> "panic", err |-> "slice bounds out of range", tralbum |-> NoAlbum]
             ELSE IF u.kind = "err"
             THEN [kind |-> "err", err |-> "parsing time", tralbum |-> NoAlbum]
             ELSE IF text.mismatch
             THEN [kind |-> "err", err |-> "cannot unmarshal", tralbum |-> NoAlbum]
             ELSE [kind |-> "ok", err |-> "",
                   tralbum |-> [artist |-> text.artist, title |-> text.title,
                                art_id |-> text.art_id, year |-> u.year,
                                tracks |-> text.tracks]]

\* time's Local().Format("2006"); the process runs in UTC
FormatYear(year) == ZeroPad(Decimal(year), 4)

-----------------------------------------------------------------------------
(* The parsed page: html.Node, findElementsWithDataKey, getDataValue.       *)

ElementNode(data, attr, kids) ==
    [type |-> "ElementNode", data |-> data, attr |-> attr, kids |-> kids]

TextNode(data) ==
    [type |-> "TextNode", data |-> data, attr |-> <<>>, kids |-> <<>>]

DocumentNode(kids) ==
    [type |-> "DocumentNode", data |-> "", attr |-> <<>>, kids |-> kids]

Attr(key, val) == [key |-> key, val |-> val]

\* the test `a.Key == key` of both loops over n.Attr
attrMatches(a, key) == a.key = key

RECURSIVE findElementsWithDataKey(_, _)
RECURSIVE findInChildren(_, _)
findElementsWithDataKey(n, key) ==
    LET own == IF n.type = "ElementNode"
               THEN [i \in 1..Len(SelectSeq(n.attr, LAMBDA a : attrMatches(a, key))) |-> n]
               ELSE <<>>
    IN  own \o findInChildren(n.kids, key)

findInChildren(kids, key) ==
    IF kids = <<>> THEN <<>>
    ELSE findElementsWithDataKey(Head(kids), key) \o findInChildren(Tail(kids), key)

\* the empty string is no JSON text
EmptyValue ==
    [syntax |-> FALSE, mismatch |-> FALSE, hasDate |-> FALSE, date |-> <<>>,
     artist |-> <<>>, title |-> <<>>, art_id |-> 0, tracks |-> <<>>]

getDataValue(n, key) ==
    LET hits == SelectSeq(n.attr, LAMBDA a : attrMatches(a, key))
    IN  IF hits = <<>> THEN EmptyValue ELSE hits[1].val

-----------------------------------------------------------------------------
(* The inputs: what the web serves and what the command line holds.         *)

Min(a, b) == IF a < b THEN a ELSE b

Track(title, num, url) == [title |-> title, track_num |-> num, url |-> url]

Json(artist, title, artId, date, tracks) ==
    [syntax |-> TRUE, mismatch |-> FALSE, hasDate |-> TRUE, date |-> date,
     artist |-> artist, title |-> title, art_id |-> artId,
     tracks |-> SubSeq(tracks, 1, Min(Len(tracks), MaxTracks))]

\* "01 Jan 2020 00:00:00 GMT", quoted
GoodDate ==
    <<34, 48, 49, 32, 74, 97, 110, 32, 50, 48, 50, 48, 32, 48, 48, 58, 48, 48,
      58, 48, 48, 32, 71, 77, 84, 34>>

\* "2020-01-01", quoted
IsoDate == <<34, 50, 48, 50, 48, 45, 48, 49, 45, 48, 49, 34>>

\* "01 jan 2020 0:00:00.5  GMT", quoted: lower-case month, one-digit hour,
\* a fractional second and two spaces before GMT
LooseDate ==
    <<34, 48, 49, 32, 106, 97, 110, 32, 50, 48, 50, 48, 32, 48, 58, 48, 48, 58,
      48, 48, 46, 53, 32, 32, 71, 77, 84, 34>>

\* "30 Feb 2020 00:00:00 GMT", quoted: the shape of the layout, no such day
NoSuchDay ==
    <<34, 51, 48, 32, 70, 101, 98, 32, 50, 48, 50, 48, 32, 48, 48, 58, 48, 48,
      58, 48, 48, 32, 71, 77, 84, 34>>

\* the JSON values 5, null and ""
NumberDate == <<53>>
NullDate == <<110, 117, 108, 108>>
EmptyDate == <<34, 34>>

\* track titles "Two", "One", "X?", "A", "A/B", "A" U+2044 "B"; urls u1..u4,
\* and one track without a url
TracksA ==
    << Track(<<84, 119, 111>>, 2, <<117, 50>>),
       Track(<<79, 110, 101>>, 1, <<117, 49>>),
       Track(<<88, 63>>, 3, <<117, 51>>),
       Track(<<65>>, 4, <<117, 52>>) >>

TracksB ==
    << Track(<<65, 47, 66>>, 1, <<117, 49>>),
       Track(<<65, 8260, 66>>, 1, <<117, 50>>),
       Track(<<79, 110, 101>>, 2, <<>>),
       Track(<<84, 119, 111>>, 3, <<117, 52>>) >>

TracksH ==
    << Track(<<88, 63>>, 1, <<117, 49>>),
       Track(<<88, 63>>, 1, <<117, 50>>),
       Track(<<79, 110, 101>>, 12, <<117, 51>>),
       Track(<<84, 119, 111>>, 3, <<117, 52>>) >>

\* the texts of the data-tralbum attributes; artist "A", titles "T" and "Q:*"
TextA == Json(<<65>>, <<84>>, 0, GoodDate, TracksA)
TextB == Json(<<65>>, <<81, 58, 42>>, 7, GoodDate, TracksB)
TextD == Json(<<65>>, <<84>>, 7, IsoDate, TracksA)
TextE == Json(<<65>>, <<84>>, 0, NumberDate, TracksA)
TextF == Json(<<65>>, <<84>>, 0, LooseDate, SubSeq(TracksA, 2, 2))
TextG == Json(<<65>>, <<84>>, 7, NullDate, TracksA)
TextH == Json(<<65>>, <<84>>, 7, GoodDate, TracksH)
TextI == [TextA EXCEPT !.syntax = FALSE]
TextJ == [TextA EXCEPT !.mismatch = TRUE]
TextK == [TextH EXCEPT !.hasDate = FALSE, !.date = <<>>, !.tracks = <<>>]
TextL == Json(<<65>>, <<84>>, 7, NoSuchDay, TracksA)
TextM == Json(<<65>>, <<84>>, 7, EmptyDate, TracksA)

\* an album page: the attribute sits on an element inside the body
AlbumPage(text) ==
    DocumentNode(<<
        ElementNode("html", <<>>, <<
            ElementNode("head", <<>>, << ElementNode("title", <<>>, << TextNode("t") >>) >>),
            ElementNode("body", << Attr("class", "x") >>, <<
                TextNode("data-tralbum"),
                ElementNode("div", << Attr("id", "p"), Attr("data-tralbum", text) >>, <<>>),
                ElementNode("script", << Attr("data-tralbum", TextI) >>, <<>>) >>) >>) >>)

\* a page with elements and attributes but no data-tralbum
PlainPage ==
    DocumentNode(<<
        ElementNode("html", <<>>, <<
            ElementNode("body", <<>>, <<
                TextNode("data-tralbum"),
                ElementNode("div", << Attr("data-item-id", "1") >>, <<
                    ElementNode("p", << Attr("class", "y") >>, <<>>) >>) >>) >>) >>)

AlbumPaths ==
    [a |-> <<47, 97, 108, 98, 117, 109, 47, 97>>,
     b |-> <<47, 97, 108, 98, 117, 109, 47, 98>>,
     d |-> <<47, 97, 108, 98, 117, 109, 47, 100>>,
     e |-> <<47, 97, 108, 98, 117, 109, 47, 101>>,
     f |-> <<47, 97, 108, 98, 117, 109, 47, 102>>,
     g |-> <<47, 97, 108, 98, 117, 109, 47, 103>>,
     h |-> <<47, 97, 108, 98, 117, 109, 47, 104>>,
     i |-> <<47, 97, 108, 98, 117, 109, 47, 105>>,
     j |-> <<47, 97, 108, 98, 117, 109, 47, 106>>,
     k |-> <<47, 97, 108, 98, 117, 109, 47, 107>>,
     l |-> <<47, 97, 108, 98, 117, 109, 47, 108>>,
     m |-> <<47, 97, 108, 98, 117, 109, 47, 109>>]

AlbumTexts ==
    [a |-> TextA, b |-> TextB, d |-> TextD, e |-> TextE, f |-> TextF,
     g |-> TextG, h |-> TextH, i |-> TextI, j |-> TextJ, k |-> TextK,
     l |-> TextL, m |-> TextM]

\* /album/c (no such album), /track/t, /music, /music/, /about
PathC == <<47, 97, 108, 98, 117, 109, 47, 99>>
PathTrack == <<47, 116, 114, 97, 99, 107, 47, 116>>
PathMusic == <<47, 109, 117, 115, 105, 99>>
PathMusicSlash == <<47, 109, 117, 115, 105, 99, 47>>
PathAbout == <<47, 97, 98, 111, 117, 116>>

Item(kids) == ElementNode("li", << Attr("data-item-id", "1") >>, kids)

Anchor(attr) == ElementNode("a", attr, << TextNode("x") >>)

\* the listing of a storefront: items with and without an album link
Listing(host) ==
    IF host = "one"
    THEN DocumentNode(<<
             ElementNode("ol", <<>>, <<
                 Item(<< Anchor(<< Attr("href", AlbumPaths.d) >>) >>),
                 Item(<< TextNode("a"),
                         ElementNode("span", << Attr("href", AlbumPaths.e) >>, <<>>),
                         Anchor(<< Attr("class", "y") >>),
                         Anchor(<< Attr("class", "y"), Attr("href", AlbumPaths.a) >>),
                         Anchor(<< Attr("href", AlbumPaths.e) >>) >>),
                 Item(<< Anchor(<< Attr("href", PathTrack) >>) >>),
                 Item(<<>>),
                 Item(<< Anchor(<< Attr("href", PathC) >>) >>) >>) >>)
    ELSE IF host = "two"
    THEN DocumentNode(<<
             ElementNode("ol", <<>>, <<
                 Item(<< Anchor(<< Attr("href", AlbumPaths.f) >>) >>),
                 Item(<< Anchor(<< Attr("href", AlbumPaths.e) >>) >>),
                 Item(<< Anchor(<< Attr("href", AlbumPaths.f) >>) >>) >>) >>)
    ELSE DocumentNode(<<
             ElementNode("ol", <<>>, <<
                 Item(<< Anchor(<< Attr("href", PathTrack) >>) >>),
                 Item(<< Anchor(<< Attr("href", AlbumPaths.f) >>) >>) >>) >>)

\* the page a URL serves
Web(host, path) ==
    IF path \in {PathMusic, PathMusicSlash} THEN Listing(host)
    ELSE IF \E n \in DOMAIN AlbumPaths : AlbumPaths[n] = path
    THEN AlbumPage(AlbumTexts[CHOOSE n \in DOMAIN AlbumPaths : AlbumPaths[n] = path])
    ELSE PlainPage

\* an argument: whether url.Parse accepts it, and the host and path it has
Url(host, path) == [bad |-> FALSE, host |-> host, path |-> path]

BadUrl == [bad |-> TRUE, host |-> "", path |-> <<>>]

Album(n) == Url("one", AlbumPaths[n])

\* the command lines of the model
ArgLists ==
    { << Album("a") >>,
      << Album("h") >>,
      << Album("b"), Album("a") >>,
      << Album("a"), Album("a") >>,
      << Url("one", PathC), Album("f") >>,
      << Album("d"), Album("f") >>,
      << Album("e"), Album("f") >>,
      << BadUrl, Url("one", PathAbout), Album("g"), Album("k") >>,
      << Album("i"), Album("j"), Album("l"), Album("m") >>,
      << Url("one", <<>>), Album("f") >>,
      << Url("two", PathMusicSlash), Album("f") >>,
      << Url("three", <<47>>) >>,
      << Url("two", PathMusic) >> }

-----------------------------------------------------------------------------
(* Errors, files and handles.                                              *)

\* an error is the lines of its message; the nil error has none
NoError == <<>>

\* fmt.Errorf("%w\n%s", err, err2): a nil err prints as %!w(<nil>)
wrapErr(err, err2) ==
    (IF err = NoError THEN << "%!w(<nil>)" >> ELSE err) \o err2

\* an open OS resource; deferred ones are closed when their function returns
Body(owner, name) == [res |-> "body", name |-> name, owner |-> owner, deferred |-> TRUE]
File(owner, name) == [res |-> "file", name |-> name, owner |-> owner, deferred |-> FALSE]
TagFile(owner, name) == [res |-> "tag", name |-> name, owner |-> owner, deferred |-> TRUE]

\* the deferred Close calls of the returning function
runDefers(hs, owner) == {h \in hs : ~(h.deferred /\ h.owner = owner)}

\* a file: where its bytes come from, how much of them it holds, its ID3 tag
Content(src, state, tag) == [src |-> src, state |-> state, tag |-> tag]

\* https://f4.bcbits.com/img/a<art_id>_16.jpg and ..._0.jpg
artUrl(artId, suffix) ==
    <<104, 116, 116, 112, 115, 58, 47, 47, 102, 52, 46, 98, 99, 98, 105, 116,
      115, 46, 99, 111, 109, 47, 105, 109, 103, 47, 97>> \o Decimal(artId) \o suffix

SmallSuffix == <<95, 49, 54, 46, 106, 112, 103>>
LargeSuffix == <<95, 48, 46, 106, 112, 103>>

\* fmt.Sprintf("%s/%s (%s)", artist, title, year)
albumPathOf(tralbum) ==
    Concat(<< tralbum.artist, <<47>>, tralbum.title, <<32, 40>>,
              FormatYear(tralbum.year), <<41>> >>)

\* fmt.Sprintf("%s/cover.jpg", albumPath)
coverPath(albumPath) ==
    albumPath \o <<47, 99, 111, 118, 101, 114, 46, 106, 112, 103>>

\* fmt.Sprintf("%s/%02d %s.mp3", albumPath, track.TrackNum, track.Title)
trackPathOf(albumPath, track) ==
    Concat(<< albumPath, <<47>>, ZeroPad(Decimal(track.track_num), 2), <<32>>,
              track.title, <<46, 109, 112, 51>> >>)

\* the directory a path lies in, and the directories os.MkdirAll makes
Slashes(path) == {i \in 1..Len(path) : path[i] = 47}

Dirname(path) ==
    IF Slashes(path) = {} THEN <<>>
    ELSE SubSeq(path, 1, (CHOOSE i \in Slashes(path) : \A j \in Slashes(path) : j <= i) - 1)

MkdirAll(path) == {path} \cup {SubSeq(path, 1, i - 1) : i \in Slashes(path)}

-----------------------------------------------------------------------------
(* The guards and the loop order of downloadAlbum.                          *)

\* a nil test that never holds
notFoundNever(el) == Len(el) < 0

\* `el == nil`
notFound(el) == el = <<>>

\* art is fetched for every album
hasArtAlways(tralbum) == tralbum.art_id >= 0

\* `tralbum.Current.ArtId != 0`
hasArt(tralbum) == tralbum.art_id # 0

\* the tracks by ascending track_num (ties by position)
sortedTrackinfo(tracks) ==
    LET before(i, j) == \/ tracks[i].track_num < tracks[j].track_num
                        \/ tracks[i].track_num = tracks[j].track_num /\ i < j
        rank(i) == Cardinality({j \in 1..Len(tracks) : before(j, i)}) + 1
    IN  [r \in 1..Len(tracks) |-> CHOOSE i \in 1..Len(tracks) : rank(i) = r]

\* `for _, track := range tralbum.Trackinfo`: the indices in array order
rangeTrackinfo(tracks) == [r \in 1..Len(tracks) |-> r]

\* a track failure that is reported and skipped: the loop goes on
trackFailureSkips(a, e) == [a EXCEPT !.n = a.n + 1, !.pc = "track"]

\* `return fmt.Errorf(...)` inside the loop: the call ends with the error
trackFailure(a, e) == [a EXCEPT !.pc = "done", !.err = e, !.at = a.pc]

\* the sanitizing of the record when *safeNames is set
cleanNames(tralbum) ==
    [tralbum EXCEPT !.artist = cleanString(tralbum.artist),
                    !.title = cleanString(tralbum.title),
                    !.tracks = [i \in 1..Len(tralbum.tracks) |->
                                   [tralbum.tracks[i] EXCEPT !.title = cleanString(@)]]]

\* the href the storefront loop ends with for one data-item-id element
RECURSIVE itemHref(_)
itemHref(kids) ==
    IF kids = <<>> THEN <<>>
    ELSE LET c == Head(kids)
             hrefs == SelectSeq(c.attr, LAMBDA a : attrMatches(a, "href"))
         IN  IF c.type = "TextNode" \/ c.data # "a" THEN itemHref(Tail(kids))
             ELSE IF hrefs # <<>> /\ hrefs[1].val # <<>> THEN hrefs[1].val
             ELSE itemHref(Tail(kids))

PrefixAlbum == <<47, 97, 108, 98, 117, 109>>

-----------------------------------------------------------------------------
(* The state.                                                              *)
(*   build            which of the repository's two programs runs: "main"   *)
(*                    is src/main.go, "part_000" is src/unnamed/part_000    *)
(*                    (no flags, no storefront, no sanitizer, and a panic   *)
(*                    where main.go returns the page's transport error)     *)
(*   args, safeNames  the command line (flag.Args() and -safeNames)        *)
(*   mpc, mi          main: where it is, and the index of its loop         *)
(*   visited, reports the indices main's loop has taken, and the error     *)
(*                    lines it has printed                                  *)
(*   sf               the frame of downloadAlbums                          *)
(*   al               the frame of downloadAlbum                           *)
(*   dirs, files      the file system                                      *)
(*   handles          the open response bodies, files and tags             *)
(*   log              the effects of the running downloadAlbum call        *)
(*   cs               the sanitizer's test bench (SpecClean only)          *)

NoFiles == [p \in {} |-> Content(<<>>, "", <<>>)]

IdleAlbum ==
    [pc |-> "idle", caller |-> "", id |-> 0, bad |-> FALSE, host |-> "", path |-> <<>>,
     doc |-> DocumentNode(<<>>), el |-> <<>>, tralbum |-> NoAlbum, decoded |-> FALSE,
     artBytes |-> <<>>, bigArtBytes |-> <<>>, albumPath |-> <<>>,
     n |-> 1, err |-> NoError, at |-> "", files0 |-> NoFiles, dirs0 |-> {}, snap |-> NoFiles]

IdleStorefront ==
    [pc |-> "idle", host |-> "", path |-> <<>>, els |-> <<>>, i |-> 1,
     err |-> NoError, calls |-> <<>>, errs |-> <<>>]

IdleClean == [pc |-> "off", s |-> <<>>, once |-> <<>>, twice |-> <<>>]

Init ==
    /\ build \in {"main", "part_000"}
    /\ args \in ArgLists
    /\ safeNames \in (IF build = "main" THEN BOOLEAN ELSE {FALSE})
    /\ mpc = "loop"
    /\ mi = 1
    /\ visited = <<>>
    /\ reports = <<>>
    /\ sf = IdleStorefront
    /\ al = IdleAlbum
    /\ dirs = {<<>>}
    /\ files = NoFiles
    /\ handles = {}
    /\ log = <<>>
    /\ cs = IdleClean

\* the frame of a fresh downloadAlbum(url) call
startAlbum(caller, u) ==
    [IdleAlbum EXCEPT !.pc = "get", !.caller = caller, !.id = al.id + 1,
                      !.bad = u.bad, !.host = u.host, !.path = u.path,
                      !.files0 = files, !.dirs0 = dirs]

Event(op, k) == [op |-> op, k |-> k]

-----------------------------------------------------------------------------
(* main.                                                                   *)

\* part_000: one turn of `for _, url := range os.Args[1:]`, up to the call
MainIterUnparsed ==
    /\ build = "part_000"
    /\ mpc = "loop"
    /\ mi <= Len(args)
    /\ visited' = Append(visited, mi)
    /\ al' = startAlbum("main", args[mi])
    /\ log' = <<>>
    /\ mpc' = "wait"
    /\ UNCHANGED <<build, args, safeNames, mi, reports, sf, dirs, files, handles, cs>>

\* one turn of `for _, u := range flag.Args()`, up to the call it makes
MainIter ==
    /\ build = "main"
    /\ mpc = "loop"
    /\ mi <= Len(args)
    /\ visited' = Append(visited, mi)
    /\ LET u == args[mi]
           path == IF u.path = <<47>> \/ u.path = <<>> THEN PathMusic ELSE u.path
       IN  IF u.bad
           THEN /\ reports' = Append(reports, [arg |-> mi, err |-> << "parse" >>])
                /\ mi' = mi + 1
                /\ UNCHANGED <<mpc, sf, al, log>>
           ELSE IF path = PathMusic \/ path = PathMusicSlash
           THEN /\ sf' = [IdleStorefront EXCEPT !.pc = "get", !.host = u.host, !.path = path]
                /\ mpc' = "wait"
                /\ UNCHANGED <<reports, mi, al, log>>
           ELSE IF HasPrefix(path, PrefixAlbum)
           THEN /\ al' = startAlbum("main", u)
                /\ log' = <<>>
                /\ mpc' = "wait"
                /\ UNCHANGED <<reports, mi, sf>>
           ELSE /\ reports' = Append(reports, [arg |-> mi, err |-> << "Invalid URL" >>])
                /\ mi' = mi + 1
                /\ UNCHANGED <<mpc, sf, al, log>>
    /\ UNCHANGED <<build, args, safeNames, dirs, files, handles, cs>>

\* `if err := downloadAlbum(u); err != nil { fmt.Println(...) }`
MainAlbumReturn ==
    /\ mpc = "wait"
    /\ al.pc = "done"
    /\ al.caller = "main"
    /\ reports' = IF al.err # NoError
                  THEN Append(reports, [arg |-> mi, err |-> al.err]) ELSE reports
    /\ mi' = mi + 1
    /\ mpc' = "loop"
    /\ al' = [IdleAlbum EXCEPT !.id = al.id]
    /\ UNCHANGED <<build, args, safeNames, visited, sf, dirs, files, handles, log, cs>>

\* `if err := downloadAlbums(*parsed); err != nil { fmt.Println(...) }`
MainStorefrontReturn ==
    /\ mpc = "wait"
    /\ sf.pc = "done"
    /\ reports' = IF sf.err # NoError
                  THEN Append(reports, [arg |-> mi, err |-> sf.err]) ELSE reports
    /\ mi' = mi + 1
    /\ mpc' = "loop"
    /\ sf' = IdleStorefront
    /\ UNCHANGED <<build, args, safeNames, visited, al, dirs, files, handles, log, cs>>

\* the loop is over: the closing line is printed and main returns
MainExit ==
    /\ mpc = "loop"
    /\ mi > Len(args)
    /\ mpc' = "exit"
    /\ UNCHANGED <<build, args, safeNames, mi, visited, reports, sf, al, dirs, files,
                   handles, log, cs>>

-----------------------------------------------------------------------------
(* downloadAlbums.                                                         *)

StorefrontStep(s, h) ==
    /\ sf' = s
    /\ handles' = h
    /\ UNCHANGED <<build, args, safeNames, mpc, mi, visited, reports, al, dirs, files, log, cs>>

\* http.Get(url.String())
StorefrontGet ==
    /\ mpc = "wait"
    /\ sf.pc = "get"
    /\ \/ StorefrontStep([sf EXCEPT !.pc = "parse"], handles \cup {Body(0, sf.path)})
       \/ StorefrontStep([sf EXCEPT !.pc = "done", !.err = << "Get" >>], handles)

\* html.Parse(resp.Body), then findElementsWithDataKey(doc, "data-item-id")
StorefrontParse ==
    /\ mpc = "wait"
    /\ sf.pc = "parse"
    /\ \/ StorefrontStep([sf EXCEPT !.pc = "loop", !.i = 1,
                             !.els = findElementsWithDataKey(Web(sf.host, sf.path),
                                                             "data-item-id")],
                         handles)
       \/ StorefrontStep([sf EXCEPT !.pc = "done", !.err = << "html.Parse" >>],
                         runDefers(handles, 0))

\* one turn of `for _, el := range els`, up to the call it makes
StorefrontIter ==
    /\ mpc = "wait"
    /\ sf.pc = "loop"
    /\ sf.i <= Len(sf.els)
    /\ LET href == itemHref(sf.els[sf.i].kids)
       IN  IF HasPrefix(href, PrefixAlbum)
           THEN /\ al' = startAlbum("sf", Url(sf.host, href))
                /\ log' = <<>>
                /\ sf' = [sf EXCEPT !.pc = "call", !.calls = Append(@, href)]
           ELSE /\ sf' = [sf EXCEPT !.i = @ + 1]
                /\ UNCHANGED <<al, log>>
    /\ UNCHANGED <<build, args, safeNames, mpc, mi, visited, reports, dirs, files, handles, cs>>

\* `if err2 := downloadAlbum(...); err2 != nil { err = fmt.Errorf(...) }`
StorefrontAlbumReturn ==
    /\ mpc = "wait"
    /\ sf.pc = "call"
    /\ al.pc = "done"
    /\ al.caller = "sf"
    /\ sf' = [sf EXCEPT !.pc = "loop", !.i = @ + 1,
                        !.err = IF al.err # NoError THEN wrapErr(@, al.err) ELSE @,
                        !.errs = Append(@, al.err)]
    /\ al' = [IdleAlbum EXCEPT !.id = al.id]
    /\ UNCHANGED <<build, args, safeNames, mpc, mi, visited, reports, dirs, files, handles,
                   log, cs>>

\* `return err` after the loop
StorefrontReturn ==
    /\ mpc = "wait"
    /\ sf.pc = "loop"
    /\ sf.i > Len(sf.els)
    /\ StorefrontStep([sf EXCEPT !.pc = "done"], runDefers(handles, 0))

-----------------------------------------------------------------------------
(* downloadAlbum.                                                          *)

AlbumStep(a, h, d, f, l) ==
    /\ al' = a
    /\ handles' = h
    /\ dirs' = d
    /\ files' = f
    /\ log' = l
    /\ UNCHANGED <<build, args, safeNames, mpc, mi, visited, reports, sf, cs>>

\* `return err` before the track loop
failure(a, e) == [a EXCEPT !.pc = "done", !.err = e, !.at = a.pc]

\* a return: the frame it leaves, with the deferred closes run
Return(a, f, l) == AlbumStep(a, runDefers(handles, al.id), dirs, f, l)

Running(pc) == mpc = "wait" /\ al.pc = pc

WriteFile(path, content) ==
    [p \in DOMAIN files \cup {path} |-> IF p = path THEN content ELSE files[p]]

\* a panic: the deferred closes run while it unwinds through the callers,
\* and the process ends
Panic ==
    /\ mpc' = "crashed"
    /\ al' = [al EXCEPT !.pc = "panic", !.at = al.pc]
    /\ handles' = runDefers(runDefers(handles, al.id), 0)
    /\ UNCHANGED <<build, args, safeNames, mi, visited, reports, sf, dirs, files, log, cs>>

\* main.go returns the error of the page's Get and Parse; part_000 panics
pageFailure(e) ==
    IF build = "main" THEN Return(failure(al, e), files, log) ELSE Panic

\* http.Get(url)
AlbumGet ==
    /\ Running("get")
    /\ \/ /\ ~al.bad
          /\ AlbumStep([al EXCEPT !.pc = "parse"], handles \cup {Body(al.id, al.path)},
                       dirs, files, log)
       \/ pageFailure(<< "Get" >>)

\* html.Parse(resp.Body)
AlbumParse ==
    /\ Running("parse")
    /\ \/ AlbumStep([al EXCEPT !.pc = "find", !.doc = Web(al.host, al.path)],
                    handles, dirs, files, log)
       \/ pageFailure(<< "html.Parse" >>)

\* findElementsWithDataKey(doc, "data-tralbum") and the nil test
AlbumFind ==
    /\ Running("find")
    /\ LET el == findElementsWithDataKey(al.doc, "data-tralbum")
       IN  IF notFound(el)
           THEN Return(failure(al, << "could not find album" >>), files, log)
           ELSE AlbumStep([al EXCEPT !.pc = "unmarshal", !.el = el],
                          handles, dirs, files, log)

\* json.Unmarshal of the first match's attribute; a panic in it unwinds
\* through main and ends the process
AlbumUnmarshal ==
    /\ Running("unmarshal")
    /\ LET r == IF al.el = <<>>
                THEN [kind |-> "panic", err |-> "index out of range", tralbum |-> NoAlbum]
                ELSE jsonUnmarshal(getDataValue(al.el[1], "data-tralbum"))
       IN  CASE r.kind = "panic" -> Panic
             [] r.kind = "err" ->
                  Return(failure(al, << "could not parse album JSON", r.err >>), files, log)
             [] r.kind = "ok" ->
                  AlbumStep([al EXCEPT !.pc = "clean", !.tralbum = r.tralbum,
                                       !.decoded = TRUE],
                            handles, dirs, files, log)

\* the *safeNames rewrite, and the test that opens the art block
AlbumClean ==
    /\ Running("clean")
    /\ LET tralbum == IF build = "main" /\ safeNames THEN cleanNames(al.tralbum)
                      ELSE al.tralbum
       IN  AlbumStep([al EXCEPT !.tralbum = tralbum,
                                !.pc = IF hasArt(tralbum) THEN "artGet" ELSE "mkdir"],
                     handles, dirs, files, log)

\* http.Get of the small art
AlbumArtGet ==
    /\ Running("artGet")
    /\ LET url == artUrl(al.tralbum.art_id, SmallSuffix)
           l == Append(log, Event("getArt16", 0))
       IN  \/ AlbumStep([al EXCEPT !.pc = "artRead"], handles \cup {Body(al.id, url)},
                        dirs, files, l)
           \/ Return(failure(al, << "could not fetch album art" >>), files, l)

\* io.ReadAll of the small art
AlbumArtRead ==
    /\ Running("artRead")
    /\ \/ AlbumStep([al EXCEPT !.pc = "bigGet",
                               !.artBytes = << artUrl(al.tralbum.art_id, SmallSuffix) >>],
                    handles, dirs, files, log)
       \/ Return(failure(al, << "could not read album art" >>), files, log)

\* http.Get of the large art
AlbumBigGet ==
    /\ Running("bigGet")
    /\ LET url == artUrl(al.tralbum.art_id, LargeSuffix)
           l == Append(log, Event("getArt0", 0))
       IN  \/ AlbumStep([al EXCEPT !.pc = "bigRead"], handles \cup {Body(al.id, url)},
                        dirs, files, l)
           \/ Return(failure(al, << "could not fetch large album art" >>), files, l)

\* io.ReadAll of the large art
AlbumBigRead ==
    /\ Running("bigRead")
    /\ \/ AlbumStep([al EXCEPT !.pc = "mkdir",
                               !.bigArtBytes = << artUrl(al.tralbum.art_id, LargeSuffix) >>],
                    handles, dirs, files, log)
       \/ Return(failure(al, << "could not read large album art" >>), files, log)

\* os.Stat and os.MkdirAll of the album directory, and the test that opens
\* the cover block
AlbumMkdir ==
    /\ Running("mkdir")
    /\ LET path == albumPathOf(al.tralbum)
           next == [al EXCEPT !.albumPath = path,
                              !.pc = IF al.bigArtBytes # <<>> THEN "coverCreate" ELSE "track"]
       IN  IF path \in dirs
           THEN AlbumStep(next, handles, dirs, files, log)
           ELSE \/ AlbumStep(next, handles, dirs \cup MkdirAll(path), files,
                             Append(log, Event("mkdir", 0)))
                \/ Return(failure([al EXCEPT !.albumPath = path],
                                  << "could not create album directory" >>), files, log)

\* os.Create(artPath)
AlbumCoverCreate ==
    /\ Running("coverCreate")
    /\ LET path == coverPath(al.albumPath)
       IN  \/ /\ Dirname(path) \in dirs
              /\ AlbumStep([al EXCEPT !.pc = "coverWrite"],
                           handles \cup {File(al.id, path)}, dirs,
                           WriteFile(path, Content(<<>>, "empty", <<>>)),
                           Append(log, Event("createCover", 0)))
           \/ Return(failure(al, << "could not create large album art file" >>), files, log)

\* f.Write(bigArtBytes) and, when it succeeds, f.Close()
AlbumCoverWrite ==
    /\ Running("coverWrite")
    /\ LET path == coverPath(al.albumPath)
       IN  \/ AlbumStep([al EXCEPT !.pc = "track"],
                        handles \ {File(al.id, path)}, dirs,
                        WriteFile(path, Content(al.bigArtBytes[1], "full", <<>>)),
                        Append(log, Event("writeCover", 0)))
           \/ Return(failure(al, << "could not write large album art file" >>),
                     WriteFile(path, Content(al.bigArtBytes[1], "partial", <<>>)), log)

Order == rangeTrackinfo(al.tralbum.tracks)

\* the index in trackinfo of the track the loop is at
Cur == Order[al.n]

CurTrack == al.tralbum.tracks[Cur]

CurPath == trackPathOf(al.albumPath, CurTrack)

\* the head of the track loop: http.Get(track.File.Url)
AlbumTrackGet ==
    /\ Running("track")
    /\ al.n <= Len(al.tralbum.tracks)
    /\ LET l == Append(log, Event("getTrack", Cur))
           a == [al EXCEPT !.snap = files]
       IN  \/ /\ CurTrack.url # <<>>
              /\ AlbumStep([a EXCEPT !.pc = "trackCreate"],
                           handles \cup {Body(al.id, CurTrack.url)}, dirs, files, l)
           \/ Return(trackFailure(a, << "could not fetch track" >>), files, l)

\* os.Create(trackPath)
AlbumTrackCreate ==
    /\ Running("trackCreate")
    /\ \/ /\ Dirname(CurPath) \in dirs
          /\ AlbumStep([al EXCEPT !.pc = "trackWrite"],
                       handles \cup {File(al.id, CurPath)}, dirs,
                       WriteFile(CurPath, Content(<<>>, "empty", <<>>)),
                       Append(log, Event("createTrack", Cur)))
       \/ Return(trackFailure(al, << "could not create track file" >>), files, log)

\* f.ReadFrom(resp.Body) and, when it succeeds, f.Close()
AlbumTrackWrite ==
    /\ Running("trackWrite")
    /\ \/ AlbumStep([al EXCEPT !.pc = "tagOpen"],
                    handles \ {File(al.id, CurPath)}, dirs,
                    WriteFile(CurPath, Content(CurTrack.url, "full", <<>>)),
                    Append(log, Event("writeTrack", Cur)))
       \/ Return(trackFailure(al, << "could not write track file" >>),
                 WriteFile(CurPath, Content(CurTrack.url, "partial", <<>>)), log)

\* id3v2.Open(trackPath, ...)
AlbumTagOpen ==
    /\ Running("tagOpen")
    /\ \/ AlbumStep([al EXCEPT !.pc = "tagSave"],
                    handles \cup {TagFile(al.id, CurPath)}, dirs, files, log)
       \/ Return(trackFailure(al, << "could not open track file" >>), files, log)

\* the frames set on the tag, and tag.Save()
AlbumTagSave ==
    /\ Running("tagSave")
    /\ LET tag == [artist |-> al.tralbum.artist, album |-> al.tralbum.title,
                   year |-> FormatYear(al.tralbum.year), title |-> CurTrack.title,
                   trck |-> Decimal(CurTrack.track_num), picture |-> al.artBytes]
           l == IF al.artBytes # <<>> THEN Append(log, Event("picture", Cur)) ELSE log
       IN  \/ AlbumStep([al EXCEPT !.pc = "track", !.n = @ + 1], handles, dirs,
                        WriteFile(CurPath, Content(CurTrack.url, "full", << tag >>)),
                        Append(l, Event("saveTag", Cur)))
           \/ Return(trackFailure(al, << "could not save track file" >>), files, log)

\* `return nil` after the loop
AlbumReturn ==
    /\ Running("track")
    /\ al.n > Len(al.tralbum.tracks)
    /\ Return([al EXCEPT !.pc = "done", !.at = "end"], files, log)

AlbumNext ==
    \/ AlbumGet \/ AlbumParse \/ AlbumFind \/ AlbumUnmarshal \/ AlbumClean
    \/ AlbumArtGet \/ AlbumArtRead \/ AlbumBigGet \/ AlbumBigRead
    \/ AlbumMkdir \/ AlbumCoverCreate \/ AlbumCoverWrite
    \/ AlbumTrackGet \/ AlbumTrackCreate \/ AlbumTrackWrite
    \/ AlbumTagOpen \/ AlbumTagSave \/ AlbumReturn

Next ==
    \/ MainIter \/ MainIterUnparsed \/ MainAlbumReturn \/ MainStorefrontReturn \/ MainExit
    \/ StorefrontGet \/ StorefrontParse \/ StorefrontIter
    \/ StorefrontAlbumReturn \/ StorefrontReturn
    \/ AlbumNext

Spec == Init /\ [][Next]_vars

-----------------------------------------------------------------------------
(* The sanitizer alone: cleanString applied to every string of at most      *)
(* MaxLen code points over the table's keys, its replacements and two       *)
(* characters outside it, and applied again to the result.                  *)

Replacements == {msStrings[r] : r \in msKeys}

Alphabet == msKeys \cup Replacements \cup {65, 32}

Strings == UNION {[1..n -> Alphabet] : n \in 0..MaxLen}

InitClean ==
    /\ build = "main"
    /\ args = <<>>
    /\ safeNames = TRUE
    /\ mpc = "exit"
    /\ mi = 1
    /\ visited = <<>>
    /\ reports = <<>>
    /\ sf = IdleStorefront
    /\ al = IdleAlbum
    /\ dirs = {<<>>}
    /\ files = NoFiles
    /\ handles = {}
    /\ log = <<>>
    /\ \E s \in Strings : cs = [pc |-> "in", s |-> s, once |-> <<>>, twice |-> <<>>]

CleanOnce ==
    /\ cs.pc = "in"
    /\ cs' = [cs EXCEPT !.pc = "once", !.once = cleanString(cs.s)]
    /\ UNCHANGED <<build, args, safeNames, mpc, mi, visited, reports, sf, al, dirs,
                   files, handles, log>>

CleanTwice ==
    /\ cs.pc = "once"
    /\ cs' = [cs EXCEPT !.pc = "twice", !.twice = cleanString(cs.once)]
    /\ UNCHANGED <<build, args, safeNames, mpc, mi, visited, reports, sf, al, dirs,
                   files, handles, log>>

NextClean == CleanOnce \/ CleanTwice

SpecClean == InitClean /\ [][NextClean]_vars

-----------------------------------------------------------------------------
(* Properties.                                                             *)

\* some element of the tree under n carries an attribute named key
RECURSIVE Carries(_, _)
Carries(n, key) ==
    \/ /\ n.type = "ElementNode"
       /\ \E i \in DOMAIN n.attr : n.attr[i].key = key
    \/ \E j \in DOMAIN n.kids : Carries(n.kids[j], key)

\* the call has made no directory, written no file and fetched nothing
\* beyond the page
NoEffects == log = <<>> /\ files = al.files0 /\ dirs = al.dirs0

\* the page of the running call has been fetched, parsed and searched
Searched ==
    /\ al.pc \notin {"idle", "get", "parse", "find"}
    /\ al.at \notin {"get", "parse"}

\* C1: when no element of the parsed page carries data-tralbum, downloadAlbum
\* returns the error "could not find album", the process does not crash, and
\* the call has created no directory, written no file and fetched no art or
\* track.
C1_NotFound ==
    (Searched /\ ~Carries(al.doc, "data-tralbum"))
        => /\ al.pc = "done"
           /\ al.err = << "could not find album" >>
           /\ mpc # "crashed"
           /\ NoEffects

\* a call on /album/c, whose page has elements and attributes but no
\* data-tralbum, has returned from the nil test
C1_Witness ==
    /\ al.pc = "done" /\ al.at = "find" /\ al.path = PathC
    /\ Carries(al.doc, "data-item-id")

\* the text json.Unmarshal was given, once the page has been searched
Decoding == al.el # <<>> /\ al.pc \notin {"idle", "get", "parse", "find", "unmarshal"}

TralbumValue == getDataValue(al.el[1], "data-tralbum")

\* the bytes are a JSON string (without escapes), and what is between its quotes
IsString(b) == Len(b) >= 2 /\ b[1] = 34 /\ b[Len(b)] = 34

Unquote(b) == SubSeq(b, 2, Len(b) - 1)

\* s has exactly the shape of the layout: DD Mon YYYY HH:MM:SS GMT
MatchesLayout(s) ==
    /\ Len(s) = 24
    /\ \A i \in {1, 2, 8, 9, 10, 11, 13, 14, 16, 17, 19, 20} : IsDigit(s[i])
    /\ \A i \in {3, 7, 12, 21} : s[i] = 32
    /\ \A i \in {15, 18} : s[i] = 58
    /\ \E m \in 1..12 : SubSeq(s, 4, 6) = shortMonthNames[m]
    /\ SubSeq(s, 22, 24) = <<71, 77, 84>>

\* the call has returned the decode error and has touched nothing
DecodeFailed ==
    /\ al.pc = "done"
    /\ al.at = "unmarshal"
    /\ al.err[1] = "could not parse album JSON"
    /\ NoEffects

HasDateString ==
    /\ Decoding
    /\ TralbumValue.syntax
    /\ TralbumValue.hasDate
    /\ IsString(TralbumValue.date)

\* C2 as stated: an album_release_date string that does not match the layout
\* exactly makes downloadAlbum return a decode error, with no directory made
\* and no file written.
C2_ExactFormat ==
    (HasDateString /\ ~MatchesLayout(Unquote(TralbumValue.date))) => DecodeFailed

\* C2, amended: an album_release_date string that time.Parse rejects under the
\* layout makes downloadAlbum return a decode error, with no directory made and
\* no file written.
C2_RejectedDate ==
    (HasDateString /\ ~timeParse(Unquote(TralbumValue.date)).ok) => DecodeFailed

\* the album whose date is "2020-01-01" has been refused
C2_Witness ==
    /\ HasDateString
    /\ TralbumValue.date = IsoDate
    /\ DecodeFailed

ArtOps == {"getArt16", "getArt0", "createCover", "writeCover", "picture"}

\* the files the running call has created or changed
Changed == {p \in DOMAIN files : p \notin DOMAIN al.files0 \/ files[p] # al.files0[p]}

\* C3: when the decoded record has art_id = 0, the call fetches neither art
\* URL, writes no cover.jpg and embeds no picture in any track.
C3_NoArt ==
    (al.decoded /\ al.tralbum.art_id = 0)
        => /\ \A q \in DOMAIN log : log[q].op \notin ArtOps
           /\ al.artBytes = <<>> /\ al.bigArtBytes = <<>>
           /\ \A h \in handles : h.owner = al.id => h.res # "file" \/ h.name # coverPath(al.albumPath)
           /\ \A p \in Changed :
                 /\ p # coverPath(albumPathOf(al.tralbum))
                 /\ files[p].tag # <<>> => files[p].tag[1].picture = <<>>

\* an album without art has been downloaded to its last track
C3_Witness ==
    /\ al.pc = "done" /\ al.at = "end"
    /\ al.tralbum.art_id = 0
    /\ Len(al.tralbum.tracks) >= 2
    /\ Changed # {}

\* the positions of an event in the log
At(op, k) == {q \in DOMAIN log : log[q] = Event(op, k)}

\* C4: tracks are handled in the order of the trackinfo array: of two tracks
\* at indices i < j whose files are both written, track i's file is written
\* and tagged before the fetch of track j begins.
C4_ArrayOrder ==
    \A i \in DOMAIN al.tralbum.tracks : \A j \in DOMAIN al.tralbum.tracks :
        (i < j /\ At("writeTrack", i) # {} /\ At("writeTrack", j) # {})
            => \E w \in At("writeTrack", i) : \E s \in At("saveTag", i) :
                   \A g \in At("getTrack", j) : w < s /\ s < g

\* two tracks whose track numbers descend along the array have been written
C4_Witness ==
    \E i \in DOMAIN al.tralbum.tracks : \E j \in DOMAIN al.tralbum.tracks :
        /\ i < j
        /\ al.tralbum.tracks[i].track_num > al.tralbum.tracks[j].track_num
        /\ At("writeTrack", i) # {} /\ At("writeTrack", j) # {}

\* C5: when the process has ended, every argument has been taken by main's
\* loop exactly once, in order: no failure of one album keeps the later
\* arguments from being processed.
C5_EveryArgument ==
    mpc \in {"exit", "crashed"} => visited = [i \in 1..Len(args) |-> i]

\* the hrefs of the listing's items that begin with /album
AlbumLinks(els) ==
    SelectSeq([i \in 1..Len(els) |-> itemHref(els[i].kids)],
              LAMBDA href : HasPrefix(href, PrefixAlbum))

\* C6: once the storefront fan-out is over, downloadAlbum has been called on
\* every album link of the listing, whatever the earlier calls returned, and
\* the error returned is non-nil exactly when some call failed, and holds
\* every call's error.
C6_EveryAlbum ==
    LET crashed == mpc = "crashed" /\ sf.pc = "call"
        returned == sf.pc = "done" /\ sf.err \notin {<< "Get" >>, << "html.Parse" >>}
    IN  (crashed \/ returned)
            => /\ sf.calls = AlbumLinks(sf.els)
               /\ Len(sf.errs) = Len(sf.calls)
               /\ (sf.err # NoError) <=> (\E i \in DOMAIN sf.errs : sf.errs[i] # NoError)
               /\ \A i \in DOMAIN sf.errs : \A l \in DOMAIN sf.errs[i] :
                      \E m \in DOMAIN sf.err : sf.err[m] = sf.errs[i][l]

\* C7: cleanString is idempotent, keeps the number of code points, leaves
\* every character outside the table where it is and puts the table's
\* replacement in the place of every character of the table.
C7_Sanitize ==
    cs.pc = "twice"
        => /\ cs.twice = cs.once
           /\ Len(cs.once) = Len(cs.s)
           /\ \A i \in DOMAIN cs.s :
                 cs.once[i] = (CASE cs.s[i] = 60  -> 65124
                                 [] cs.s[i] = 62  -> 65125
                                 [] cs.s[i] = 58  -> 720
                                 [] cs.s[i] = 47  -> 8260
                                 [] cs.s[i] = 92  -> 8726
                                 [] cs.s[i] = 124 -> 12033
                                 [] cs.s[i] = 63  -> 65110
                                 [] cs.s[i] = 42  -> 65121
                                 [] OTHER -> cs.s[i])

\* a string holding a replacement, a table character and a plain character
\* has been sanitized twice
C7_Witness ==
    /\ cs.pc = "twice"
    /\ cs.s = <<65124, 60, 65>>
    /\ cs.once = <<65124, 65124, 65>>

\* C8: decoding the data-tralbum value never ends the process: it yields a
\* record or an error that downloadAlbum returns.
C8_DecodeTotal == ~(al.pc = "panic" /\ al.at = "unmarshal")

\* C9: when downloadAlbum has returned, none of the files it opened (cover.jpg,
\* the track files, the tags) is still open.
C9_FilesClosed ==
    al.pc = "done"
        => \A h \in handles : h.owner = al.id => h.res \notin {"file", "tag"}

\* track k has been fetched but not saved, and the loop is no longer at it
Fetched(k) == At("getTrack", k) # {}

Saved(k) == At("saveTag", k) # {}

InProgress(k) ==
    /\ al.pc \in {"trackCreate", "trackWrite", "tagOpen", "tagSave"}
    /\ Cur = k

Failed(k) == Fetched(k) /\ ~Saved(k) /\ ~InProgress(k)

TrackPath(i) == trackPathOf(al.albumPath, al.tralbum.tracks[i])

\* the album ended with an error at track k: nothing later was touched, and
\* the directory and the cover are as they were
EndedAt(k) ==
    /\ al.pc = "done"
    /\ al.err # NoError
    /\ \A q \in DOMAIN log : log[q].k <= k
    /\ al.albumPath \in dirs
    /\ al.bigArtBytes # <<>> =>
          /\ coverPath(al.albumPath) \in DOMAIN files
          /\ files[coverPath(al.albumPath)] = Content(al.bigArtBytes[1], "full", <<>>)

\* C10 as stated: a failure at track k ends the album with an error, no later
\* track is fetched or written, and the directory, the cover and the files of
\* every track below k are as they were when track k began.
C10_NoRollback ==
    al.pc # "idle" =>
        \A k \in DOMAIN al.tralbum.tracks :
            Failed(k) => /\ EndedAt(k)
                         /\ \A i \in 1..(k - 1) :
                               /\ TrackPath(i) \in DOMAIN files
                               /\ files[TrackPath(i)] = al.snap[TrackPath(i)]

\* C10, amended: as above, except that a track below k whose file name is the
\* file name of track k is still on disk but may have been overwritten by
\* track k.
C10_NoRollbackElsewhere ==
    al.pc # "idle" =>
        \A k \in DOMAIN al.tralbum.tracks :
            Failed(k) => /\ EndedAt(k)
                         /\ \A i \in 1..(k - 1) :
                               /\ TrackPath(i) \in DOMAIN files
                               /\ TrackPath(i) # TrackPath(k)
                                     => files[TrackPath(i)] = al.snap[TrackPath(i)]
                         /\ \A p \in DOMAIN al.snap :
                               p \in DOMAIN files /\ (p # TrackPath(k) => files[p] = al.snap[p])

\* the write of the second of three tracks has failed, after the first
\* track's file was written and tagged
C10_Witness ==
    /\ al.pc = "done" /\ al.at = "trackWrite"
    /\ Cur = 2 /\ Len(al.tralbum.tracks) >= 3
    /\ Saved(1) /\ TrackPath(1) # TrackPath(2)
    /\ files[TrackPath(1)].tag # <<>>
    /\ files[TrackPath(2)].state = "partial"

====
